---------------------------- MODULE Spec2Model ----------------------------
(***************************************************************************)
(* A model of the metadata hydration and first-seen-timestamp caching of   *)
(* api/index.py: the key-value store, hydrate_track_entries, the           *)
(* publication-date part of create_podcast_xml, and the pure helpers they  *)
(* call (coerce_epoch_seconds, sanitize_track_metadata,                    *)
(* merge_entry_with_metadata, resolve_track_url, the key derivation).      *)
(*                                                                         *)
(* Python values are tagged records: PyNone, PyInt(n), PyStr(s),           *)
(* PyList(l), PyDict(d).  A Python str is a sequence of tokens; a token is *)
(* one character wherever the code looks inside the string (digits, ':',   *)
(* '/', '-', ' ', '"', '.'), and an opaque piece of text elsewhere.  A     *)
(* Python dict is a function from its keys (strings) to values.            *)
(***************************************************************************)
EXTENDS Integers, Sequences, FiniteSets, TLC

VARIABLES
    kvAvailable,   \* KV_REST_API_URL and KV_REST_API_TOKEN are both set
    now,           \* int(time.time())
    store,         \* the key-value store: encoded key -> stored string, or Absent
    written,       \* first-seen key -> the int of the last write the store took
    req,           \* per request: the locals of do_GET / hydrate / create_podcast_xml
    probe          \* input and result of the last pure-function application

vars == <<kvAvailable, now, store, written, req, probe>>

-----------------------------------------------------------------------------
(* Python values *)

PyNone == [k |-> "none"]
PyInt(n) == [k |-> "int", v |-> n]
PyStr(s) == [k |-> "str", v |-> s]
PyList(l) == [k |-> "list", v |-> l]
PyDict(d) == [k |-> "dict", v |-> d]
\* An int beyond the model checker's 32-bit integers: the value hi * 1000 + lo.
PyBig(h, l) == [k |-> "big", hi |-> h, lo |-> l]
\* An int beyond those: the value top * 1000000 + mid * 1000 + lo.
PyHuge(t, m, l) == [k |-> "huge", top |-> t, mid |-> m, lo |-> l]

EmptyMap == <<>>

IsNone(x) == x.k = "none"
IsInt(x) == x.k \in {"int", "big", "huge"}
IsStr(x) == x.k = "str"
IsList(x) == x.k = "list"
IsDict(x) == x.k = "dict"

\* bool(x)
Truthy(x) ==
    CASE x.k = "none" -> FALSE
      [] x.k = "int" -> x.v # 0
      [] x.k = "str" -> Len(x.v) > 0
      [] x.k = "list" -> Len(x.v) > 0
      [] x.k = "dict" -> DOMAIN x.v # {}
      [] OTHER -> TRUE

\* d.get(f) on the dict payload d
Get(d, f) == IF f \in DOMAIN d THEN d[f] ELSE PyNone

\* d[f] = val
Put(d, f, val) == [g \in (DOMAIN d) \cup {f} |-> IF g = f THEN val ELSE d[g]]

\* x.get(f) for a value that is a dict
DGet(x, f) == Get(x.v, f)

\* a or b
PyOr(a, b) == IF Truthy(a) THEN a ELSE b

Min(a, b) == IF a < b THEN a ELSE b
Max(a, b) == IF a > b THEN a ELSE b

-----------------------------------------------------------------------------
(* Strings *)

Digits == <<"0", "1", "2", "3", "4", "5", "6", "7", "8", "9">>

IsDigitTok(c) == \E i \in 1..10 : Digits[i] = c

DigitVal(c) == (CHOOSE i \in 1..10 : Digits[i] = c) - 1

\* str.isdigit()
IsDigitStr(s) == Len(s) > 0 /\ \A i \in 1..Len(s) : IsDigitTok(s[i])

RECURSIVE ParseDigits(_)
ParseDigits(s) ==
    IF Len(s) = 0 THEN 0
    ELSE 10 * ParseDigits(SubSeq(s, 1, Len(s) - 1)) + DigitVal(s[Len(s)])

RECURSIVE NatToStr(_)
NatToStr(n) ==
    IF n < 10 THEN <<Digits[n + 1]>>
    ELSE NatToStr(n \div 10) \o <<Digits[(n % 10) + 1]>>

\* str(n) for an int n
IntToStr(n) == IF n < 0 THEN <<"-">> \o NatToStr(0 - n) ELSE NatToStr(n)

RECURSIVE LStrip(_)
LStrip(s) == IF Len(s) > 0 /\ s[1] = " " THEN LStrip(Tail(s)) ELSE s

RECURSIVE RStrip(_)
RStrip(s) ==
    IF Len(s) > 0 /\ s[Len(s)] = " " THEN RStrip(SubSeq(s, 1, Len(s) - 1)) ELSE s

\* str.strip()
Strip(s) == RStrip(LStrip(s))

\* The position of the first "." of s, or 0.
DotAt(s) ==
    IF \E i \in 1..Len(s) : s[i] = "."
    THEN CHOOSE i \in 1..Len(s) : s[i] = "." /\ \A j \in 1..(i - 1) : s[j] # "."
    ELSE 0

\* int(float(s)) of the parts of the text: its sign, the digits before the dot
\* and those after it; PyNone stands for the ValueError.
IntOfParts(neg, whole, frac, dotted) ==
    IF IsDigitStr(whole) /\ (Len(frac) = 0 \/ IsDigitStr(frac))
    THEN PyInt(IF neg THEN 0 - ParseDigits(whole) ELSE ParseDigits(whole))
    ELSE IF Len(whole) = 0 /\ dotted /\ IsDigitStr(frac) THEN PyInt(0)
    ELSE PyNone

\* The unsigned text split at its first dot, at position dot (0: no dot).
IntOfUnsigned(neg, body, dot) ==
    IntOfParts(neg,
               IF dot = 0 THEN body ELSE SubSeq(body, 1, dot - 1),
               IF dot = 0 THEN <<>> ELSE SubSeq(body, dot + 1, Len(body)),
               dot # 0)

IntOfSigned(neg, body) == IntOfUnsigned(neg, body, DotAt(body))

\* int(float(s)) for the decimal notations [sign] digits ["." digits]; PyNone
\* stands for the ValueError of anything else.
IntOfFloatStr(s) ==
    IntOfSigned(Len(s) > 0 /\ s[1] = "-",
                IF Len(s) > 0 /\ s[1] \in {"-", "+"} THEN Tail(s) ELSE s)

-----------------------------------------------------------------------------
(* Timestamp coercion *)

IsLeap(y) == (y % 4 = 0 /\ y % 100 # 0) \/ y % 400 = 0

DaysInMonth(y, m) ==
    IF m = 2 THEN (IF IsLeap(y) THEN 29 ELSE 28)
    ELSE IF m \in {4, 6, 9, 11} THEN 30 ELSE 31

\* datetime accepts the date
ValidDate(y, m, d) ==
    /\ y >= 1 /\ y <= 9999
    /\ m >= 1 /\ m <= 12
    /\ d >= 1 /\ d <= DaysInMonth(y, m)

\* Days from 1970-01-01 to the date (proleptic Gregorian calendar).
DaysFromCivil(y, m, d) ==
    LET yy == IF m <= 2 THEN y - 1 ELSE y
        era == yy \div 400
        yoe == yy - era * 400
        mp == IF m > 2 THEN m - 3 ELSE m + 9
        doy == (153 * mp + 2) \div 5 + d - 1
        doe == yoe * 365 + yoe \div 4 - yoe \div 100 + doy
    IN  era * 146097 + doe - 719468

\* int(dt.timestamp()) of a datetime in UTC
UtcEpoch(y, m, d, hh, mm, ss) ==
    DaysFromCivil(y, m, d) * 86400 + hh * 3600 + mm * 60 + ss

Num(s, i, j) == ParseDigits(SubSeq(s, i, j))

AllDigits(s, i, j) == \A n \in i..j : IsDigitTok(s[n])

\* The date, the time of day and the offset of an ISO text, each at its place.
IsoDateOk(s) ==
    /\ Len(s) >= 10
    /\ AllDigits(s, 1, 4) /\ s[5] = "-" /\ AllDigits(s, 6, 7)
    /\ s[8] = "-" /\ AllDigits(s, 9, 10)
    /\ ValidDate(Num(s, 1, 4), Num(s, 6, 7), Num(s, 9, 10))

IsoTimeOk(s) ==
    /\ Len(s) >= 19
    /\ s[11] = "T"
    /\ AllDigits(s, 12, 13) /\ s[14] = ":" /\ AllDigits(s, 15, 16)
    /\ s[17] = ":" /\ AllDigits(s, 18, 19)
    /\ Num(s, 12, 13) < 24 /\ Num(s, 15, 16) < 60 /\ Num(s, 18, 19) < 60

IsoZoneOk(s) ==
    /\ Len(s) = 25
    /\ s[20] \in {"+", "-"}
    /\ AllDigits(s, 21, 22) /\ s[23] = ":" /\ AllDigits(s, 24, 25)
    /\ Num(s, 21, 22) < 24 /\ Num(s, 24, 25) < 60

\* The date and time of the text as if in UTC; midnight when it has no time.
IsoDateTime(s) ==
    UtcEpoch(Num(s, 1, 4), Num(s, 6, 7), Num(s, 9, 10),
             IF Len(s) >= 19 THEN Num(s, 12, 13) ELSE 0,
             IF Len(s) >= 19 THEN Num(s, 15, 16) ELSE 0,
             IF Len(s) >= 19 THEN Num(s, 18, 19) ELSE 0)

\* The offset of the text in seconds; 0 when it has none.
IsoOffset(s) ==
    IF Len(s) = 25
    THEN (Num(s, 21, 22) * 3600 + Num(s, 24, 25) * 60) * (IF s[20] = "-" THEN -1 ELSE 1)
    ELSE 0

\* datetime.fromisoformat(s) as epoch seconds, for the notations YYYY-MM-DD,
\* YYYY-MM-DDTHH:MM:SS and YYYY-MM-DDTHH:MM:SS+HH:MM (a naive value is taken as
\* UTC by the caller); PyNone stands for the ValueError of anything else.
FromIsoFormat(s) ==
    IF IsoDateOk(s) /\ (Len(s) = 10 \/ (IsoTimeOk(s) /\ (Len(s) = 19 \/ IsoZoneOk(s))))
    THEN PyInt(IsoDateTime(s) - IsoOffset(s))
    ELSE PyNone

\* 10**12 is BigUnit * 1000: the threshold above which a number is milliseconds.
BigUnit == 1000000000

\* The int hi * 1000 + lo as an int value of the model.
IntOfThousands(hi, lo) ==
    IF hi < 2147483 THEN PyInt(hi * 1000 + lo) ELSE PyBig(hi, lo)

\* The int top * 1000000 + mid * 1000 + lo as an int value of the model.
IntOfMillions(top, mid, lo) ==
    IF top < 2147483 THEN IntOfThousands(top * 1000 + mid, lo) ELSE PyHuge(top, mid, lo)

\* int(s) for a string of at most 15 digits, as an int value of the model
IntOfDigits(s) ==
    IF Len(s) <= 9 THEN PyInt(ParseDigits(s))
    ELSE IF Len(s) <= 12
    THEN IntOfThousands(ParseDigits(SubSeq(s, 1, Len(s) - 3)),
                        ParseDigits(SubSeq(s, Len(s) - 2, Len(s))))
    ELSE IntOfMillions(ParseDigits(SubSeq(s, 1, Len(s) - 6)),
                       ParseDigits(SubSeq(s, Len(s) - 5, Len(s) - 3)),
                       ParseDigits(SubSeq(s, Len(s) - 2, Len(s))))

\* x // 1000 for an int value
FloorDiv1000(x) ==
    IF x.k = "huge" THEN IntOfThousands(x.top, x.mid)
    ELSE IF x.k = "big" THEN PyInt(x.hi)
    ELSE PyInt(x.v \div 1000)

\* x > 10**12 for an int value
AboveMillis(x) ==
    \/ x.k = "huge"
    \/ x.k = "big" /\ (x.hi > BigUnit \/ (x.hi = BigUnit /\ x.lo > 0))

\* a > b for int values
IntGreater(a, b) ==
    CASE a.k = "int" /\ b.k = "int" -> a.v > b.v
      [] a.k = "huge" /\ b.k = "huge" ->
             \/ a.top > b.top
             \/ a.top = b.top /\ (a.mid > b.mid \/ (a.mid = b.mid /\ a.lo > b.lo))
      [] a.k = "huge" -> TRUE
      [] b.k = "huge" -> FALSE
      [] a.k = "big" /\ b.k = "int" -> TRUE
      [] a.k = "int" /\ b.k = "big" -> FALSE
      [] OTHER -> a.hi > b.hi \/ (a.hi = b.hi /\ a.lo > b.lo)

\* Lines 222-251: the stripped string.
CoerceCleaned(cleaned) ==
    IF Len(cleaned) = 0 THEN PyNone
    ELSE IF IsDigitStr(cleaned)
    THEN (IF Len(cleaned) = 13 THEN FloorDiv1000(IntOfDigits(cleaned))
          ELSE IF /\ Len(cleaned) = 8
                  /\ ValidDate(Num(cleaned, 1, 4), Num(cleaned, 5, 6), Num(cleaned, 7, 8))
          THEN PyInt(UtcEpoch(Num(cleaned, 1, 4), Num(cleaned, 5, 6),
                              Num(cleaned, 7, 8), 0, 0, 0))
          ELSE IntOfDigits(cleaned))
    ELSE FromIsoFormat(IF cleaned[Len(cleaned)] = "Z"
                       THEN SubSeq(cleaned, 1, Len(cleaned) - 1)
                                \o <<"+", "0", "0", ":", "0", "0">>
                       ELSE cleaned)

\* A coercion that takes every number for seconds.
seconds_only(value) ==
    IF IsInt(value) THEN value
    ELSE IF IsStr(value) THEN CoerceCleaned(Strip(value.v))
    ELSE PyNone

\* Lines 210-253.
coerce_epoch_seconds(value) ==
    IF IsNone(value) THEN PyNone
    ELSE IF IsInt(value)
    THEN (IF AboveMillis(value) THEN FloorDiv1000(value) ELSE value)
    ELSE IF IsStr(value) THEN CoerceCleaned(Strip(value.v))
    ELSE PyNone

\* The first of the candidates that coerces, or PyNone.
RECURSIVE FirstCoerced(_)
OrNextCoerced(coerced, rest) ==
    IF ~IsNone(coerced) THEN coerced ELSE FirstCoerced(rest)

FirstCoerced(candidates) ==
    IF Len(candidates) = 0 THEN PyNone
    ELSE OrNextCoerced(coerce_epoch_seconds(Head(candidates)), Tail(candidates))

-----------------------------------------------------------------------------
(* Metadata sanitization, URL resolution and entry normalization *)

\* The outcome of a call that raised an exception.
Raised == [k |-> "raised"]

IsRaised(x) == x.k = "raised"

TRACK_METADATA_PREFIX == <<"track-metadata">>

TRACK_METADATA_VERSION == PyStr(<<"v1">>)

TRACK_METADATA_FIELDS ==
    {"id", "title", "uploader", "uploader_id", "duration", "timestamp",
     "upload_date", "release_timestamp", "webpage_url", "description",
     "last_modified", "thumbnails"}

\* int(c) of a stripped string, its sign taken off; PyNone: the ValueError.
IntOfSignedDigits(neg, body) ==
    IF ~IsDigitStr(body) THEN PyNone
    ELSE IF neg THEN PyInt(0 - ParseDigits(body)) ELSE IntOfDigits(body)

IntOfText(c) ==
    IntOfSignedDigits(Len(c) > 0 /\ c[1] = "-",
                      IF Len(c) > 0 /\ c[1] \in {"-", "+"} THEN Tail(c) ELSE c)

\* int(x): PyNone stands for the TypeError or ValueError.
PyIntOf(x) ==
    IF IsInt(x) THEN x
    ELSE IF IsStr(x) THEN IntOfText(Strip(x.v))
    ELSE PyNone

\* One element of the cleaned thumbnail list: the id and url keys that are not None.
CleanThumb(thumb) ==
    PyDict([key \in {f \in {"id", "url"} : ~IsNone(DGet(thumb, f))} |-> thumb.v[key]])

\* The elements of a raw thumbnail list that are dicts with a truthy url, cleaned.
CleanThumbnails(l) ==
    LET keep(i) == IsDict(l[i]) /\ Truthy(DGet(l[i], "url"))
        F[i \in 0..Len(l)] ==
            IF i = 0 THEN <<>>
            ELSE IF keep(i) THEN Append(F[i - 1], CleanThumb(l[i])) ELSE F[i - 1]
    IN  F[Len(l)]

\* A sanitizer that keeps every field that has a value, listed or not.
keep_every_field(raw_metadata) ==
    IF ~IsDict(raw_metadata) THEN PyNone
    ELSE LET raw == raw_metadata.v
             kept == [field \in {f \in DOMAIN raw : ~IsNone(raw[f])} |-> raw[field]]
         IN  IF DOMAIN kept = {} THEN PyNone ELSE PyDict(kept)

\* Lines 276-286: the cleaned list is kept when it is not empty.
ThumbnailsOrNone(cleaned_thumbnails) ==
    IF Len(cleaned_thumbnails) > 0 THEN PyList(cleaned_thumbnails) ELSE PyNone

\* Lines 265-288: what the field is kept as; PyNone when it is skipped.
SanitizedValue(field, value) ==
    IF field = "duration" THEN PyIntOf(value)
    ELSE IF field = "thumbnails" /\ IsList(value)
    THEN ThumbnailsOrNone(CleanThumbnails(value.v))
    ELSE value

\* Lines 261-288: the dict of the listed fields that are kept.
SanitizedFields(raw) ==
    [field \in {f \in TRACK_METADATA_FIELDS \cap DOMAIN raw :
                    ~IsNone(SanitizedValue(f, raw[f]))} |->
         SanitizedValue(field, raw[field])]

\* Lines 290-291.
WithFallbackUrl(sanitized, url) ==
    IF "webpage_url" \notin DOMAIN sanitized /\ Truthy(url)
    THEN Put(sanitized, "webpage_url", url)
    ELSE sanitized

\* Line 293: sanitized or None.
DictOrNone(d) == IF DOMAIN d = {} THEN PyNone ELSE PyDict(d)

\* Lines 256-294.
sanitize_track_metadata(raw_metadata) ==
    IF ~IsDict(raw_metadata) THEN PyNone
    ELSE DictOrNone(WithFallbackUrl(SanitizedFields(raw_metadata.v),
                                    DGet(raw_metadata, "url")))

RECURSIVE LStripSlash(_)
LStripSlash(s) == IF Len(s) > 0 /\ s[1] = "/" THEN LStripSlash(Tail(s)) ELSE s

\* Lines 349-355.  Raised stands for the AttributeError of candidate.startswith
\* on a non-string.
CanonicalUrl(candidate) ==
    IF ~Truthy(candidate) THEN PyNone
    ELSE IF ~IsStr(candidate) THEN Raised
    ELSE IF candidate.v[1] \in {"http://", "https://"} THEN candidate
    ELSE PyStr(<<"https://", "soundcloud.com", "/">> \o LStripSlash(candidate.v))

resolve_track_url(entry) ==
    IF ~IsDict(entry) THEN PyNone
    ELSE CanonicalUrl(PyOr(PyOr(DGet(entry, "webpage_url"), DGet(entry, "url")),
                           DGet(entry, "webpage")))

\* str(x)
PyStrOf(x) ==
    IF IsStr(x) THEN x
    ELSE IF x.k = "int" THEN PyStr(IntToStr(x.v))
    ELSE PyStr(<<"repr">>)

OrZero(value) == IF IsNone(value) THEN PyInt(0) ELSE value

\* int(float(x)), 0 on TypeError or ValueError (lines 403-406)
DurationOf(x) ==
    IF IsInt(x) THEN x
    ELSE IF IsStr(x) THEN OrZero(IntOfFloatStr(Strip(x.v)))
    ELSE PyInt(0)

\* The first of the candidates that coerces, or PyNone (lines 408-419).
ResolveTimestamp(merged) ==
    FirstCoerced(<<Get(merged, "timestamp"), Get(merged, "release_timestamp"),
                   Get(merged, "epoch"), Get(merged, "last_modified"),
                   Get(merged, "upload_date")>>)

\* Lines 380-388: the entry's items overlaid with the metadata's usable items.
\* Raised stands for the AttributeError of metadata.items() on a non-dict.
Overlay(base, md) ==
    [key \in (DOMAIN base) \cup {f \in DOMAIN md :
                                    /\ ~IsNone(md[f])
                                    /\ ~(f = "thumbnails" /\ ~IsList(md[f]))} |->
         IF key \in DOMAIN md /\ ~IsNone(md[key])
                /\ ~(key = "thumbnails" /\ ~IsList(md[key]))
         THEN md[key] ELSE base[key]]

MergeItems(entry, metadata) ==
    IF ~Truthy(metadata) THEN PyDict(IF IsDict(entry) THEN entry.v ELSE EmptyMap)
    ELSE IF ~IsDict(metadata) THEN Raised
    ELSE PyDict(Overlay(IF IsDict(entry) THEN entry.v ELSE EmptyMap, metadata.v))

\* The merge without lines 390-391.
WithoutDefaults(m) == m

\* Line 391.
WithUploader(m) ==
    IF "uploader" \in DOMAIN m THEN m
    ELSE Put(m, "uploader", PyStr(<<"Unknown Artist">>))

\* Lines 390-391: setdefault of title and uploader.
WithDefaults(m) ==
    WithUploader(IF "title" \in DOMAIN m THEN m
                 ELSE Put(m, "title", PyOr(Get(m, "name"), PyStr(<<"Unknown Title">>))))

\* Lines 393-395: the URL the entry already has, else the resolved one.
TrackUrl(entry, own_url) ==
    IF Truthy(own_url) THEN own_url ELSE resolve_track_url(entry)

\* Lines 396-397.
WithUrl(m, track_url) ==
    IF Truthy(track_url) THEN Put(m, "webpage_url", track_url) ELSE m

\* Lines 399-406.
WithDuration(m) ==
    Put(m, "duration",
        IF IsNone(Get(m, "duration")) THEN PyInt(0) ELSE DurationOf(m["duration"]))

\* Lines 420-421.
WithTimestamp(m, resolved_timestamp) ==
    IF ~IsNone(resolved_timestamp) THEN Put(m, "timestamp", resolved_timestamp) ELSE m

\* Lines 408-421.
Timestamped(m) == WithTimestamp(m, ResolveTimestamp(m))

\* Lines 423-427.
WithDescription(m) ==
    IF IsNone(Get(m, "description")) THEN Put(m, "description", PyStr(<<>>))
    ELSE IF ~IsStr(m["description"]) THEN Put(m, "description", PyStrOf(m["description"]))
    ELSE m

\* Lines 396-429, or the exception of resolve_track_url.
Normalized(m, track_url) ==
    IF IsRaised(track_url) THEN Raised
    ELSE PyDict(WithDescription(Timestamped(WithDuration(WithUrl(m, track_url)))))

\* Lines 393-429 for the merged dict with its defaults.
NormalizedFrom(entry, m) ==
    Normalized(m, TrackUrl(entry, PyOr(Get(m, "webpage_url"), Get(m, "url"))))

\* Lines 390-429, or the exception of metadata.items().
MergedFrom(entry, items) ==
    IF IsRaised(items) THEN Raised ELSE NormalizedFrom(entry, WithDefaults(items.v))

merge_entry_with_metadata(entry, metadata) ==
    MergedFrom(entry, MergeItems(entry, metadata))

-----------------------------------------------------------------------------
(* Store keys, JSON text and the decoding of store responses *)

\* The text of a value inside an f-string.
Format(x) == PyStrOf(x).v

\* feed_path is a token sequence, track_id a value.
get_kv_key(feed_path, track_id) ==
    <<"feed", ":">> \o feed_path \o <<":", "track", ":">> \o Format(track_id)

\* quote(c, safe='') of one token
QuoteTok(c) ==
    CASE c = ":" -> "%3A"
      [] c = "/" -> "%2F"
      [] c = " " -> "%20"
      [] c = "%" -> "%25"
      [] c = "https://" -> "https%3A%2F%2F"
      [] c = "http://" -> "http%3A%2F%2F"
      [] OTHER -> c

encode_kv_key(key) == [i \in 1..Len(key) |-> QuoteTok(key[i])]

\* Line 302 and line 324: the encoded key of a track's metadata record.
MetadataKey(track_id) ==
    encode_kv_key(TRACK_METADATA_PREFIX \o <<":">> \o TRACK_METADATA_VERSION.v
                      \o <<":">> \o Format(track_id))

FirstSeenKey(feed_path, track_id) == encode_kv_key(get_kv_key(feed_path, track_id))

\* json.dumps(x): a number's text is its digits; the text of a dict or a list is
\* kept as the value it denotes, tagged "json".
JsonDumps(x) ==
    IF x.k = "int" THEN PyStr(IntToStr(x.v))
    ELSE IF IsNone(x) THEN PyStr(<<"null">>)
    ELSE [k |-> "json", v |-> x]

JsonError == [k |-> "jsonerror"]

\* The JSON value of the stripped text c; body is c without a leading "-".
JsonValue(c, body) ==
    IF c = <<"null">> THEN PyNone
    ELSE IF IsDigitStr(body) /\ (Len(body) = 1 \/ body[1] # "0")
    THEN (IF Len(c) > Len(body) THEN PyInt(0 - ParseDigits(body))
          ELSE IntOfDigits(body))
    ELSE IF Len(c) >= 2 /\ c[1] = "\"" /\ c[Len(c)] = "\""
            /\ \A i \in 2..(Len(c) - 1) : c[i] # "\""
    THEN PyStr(SubSeq(c, 2, Len(c) - 1))
    ELSE JsonError

JsonText(c) == JsonValue(c, IF Len(c) > 0 /\ c[1] = "-" THEN Tail(c) ELSE c)

\* json.loads(s) of a string; JsonError stands for the JSONDecodeError.
JsonLoads(s) == IF s.k = "json" THEN s.v ELSE JsonText(Strip(s.v))

\* A str value, plain or JSON text.
IsText(x) == x.k \in {"str", "json"}

\* Responses of the store's REST interface: a status and, for 200, the body's
\* "result".  Status 0 stands for a request that raised (a network error).
HttpOk == 200
HttpNotFound == 404
HttpError == 500
HttpRaised == 0

Response(st, res) == [status |-> st, result |-> res]

\* What GET /get/<key> can answer in the current state of the store.
GetResponses(key) ==
    (IF key \in DOMAIN store
     THEN {Response(HttpOk, store[key])}
     ELSE {Response(HttpNotFound, PyNone), Response(HttpOk, PyNone)})
    \cup {Response(HttpError, PyNone), Response(HttpRaised, PyNone)}

\* What POST /set/<key> can answer; the store takes the value only with 200.
SetStatuses == {HttpOk, HttpError, HttpRaised}

\* A store call that sends its request again when the first one fails.
RetryOnError(calls, status) ==
    IF ~calls THEN 0 ELSE IF status \in {HttpError, HttpRaised} THEN 2 ELSE 1

\* The HTTP requests one call of a store function sends: the one requests.get
\* (lines 129 and 305) or requests.post (lines 158 and 327) when the call gets
\* past its guards, whatever the store answers.
StoreRequests(calls, status) == IF calls THEN 1 ELSE 0

\* A coercion that takes numbers only and parses no text.
coerce_numbers_only(raw_value) ==
    IF IsInt(raw_value) THEN raw_value ELSE PyNone

RECURSIVE coerce_timestamp(_)

\* Lines 84-94: for a dict the keys "value" and "result" are tried, then any of
\* the dict's values.
CoerceNested(d) ==
    IF \E f \in {"value"} \cap DOMAIN d : ~IsNone(coerce_timestamp(d[f]))
    THEN coerce_timestamp(d["value"])
    ELSE IF \E f \in {"result"} \cap DOMAIN d : ~IsNone(coerce_timestamp(d[f]))
    THEN coerce_timestamp(d["result"])
    ELSE IF \E f \in DOMAIN d : ~IsNone(coerce_timestamp(d[f]))
    THEN coerce_timestamp(d[CHOOSE f \in DOMAIN d : ~IsNone(coerce_timestamp(d[f]))])
    ELSE PyNone

\* Lines 104-117: int(float(cleaned)), else the JSON value of cleaned.
CoerceParsed(number, parsed) ==
    IF ~IsNone(number) THEN number
    ELSE IF IsInt(parsed) THEN parsed
    ELSE IF IsDict(parsed) THEN coerce_timestamp(parsed)
    ELSE PyNone

CoerceUnquoted(cleaned) ==
    CoerceParsed(IntOfFloatStr(Strip(cleaned)), JsonLoads(PyStr(cleaned)))

\* Lines 100-102: the text without the quotes around it.
Unquoted(stripped) ==
    IF Len(stripped) >= 2 /\ stripped[1] = "\"" /\ stripped[Len(stripped)] = "\""
    THEN SubSeq(stripped, 2, Len(stripped) - 1)
    ELSE stripped

\* Lines 77-119, the nested _coerce_timestamp.
coerce_timestamp(raw_value) ==
    IF IsNone(raw_value) THEN PyNone
    ELSE IF IsInt(raw_value) THEN raw_value
    ELSE IF IsDict(raw_value) THEN CoerceNested(raw_value.v)
    ELSE IF raw_value.k = "json"
    THEN (IF IsInt(raw_value.v) THEN raw_value.v
          ELSE IF IsDict(raw_value.v) THEN CoerceNested(raw_value.v.v)
          ELSE PyNone)
    ELSE IF IsStr(raw_value) THEN CoerceUnquoted(Unquoted(Strip(raw_value.v)))
    ELSE PyNone

\* The store answered that the key holds nothing: 404, or 200 with a null result.
NoRecord(resp) ==
    resp.status = HttpNotFound \/ (resp.status = HttpOk /\ IsNone(resp.result))

\* The value get_track_first_seen_time returns for the store's response
\* (lines 131-142).
FirstSeenOfResponse(resp) ==
    IF resp.status = HttpOk THEN coerce_timestamp(resp.result) ELSE PyNone

\* Lines 198-205: the parsed text, or the stripped text when it is no JSON.
DecodedText(result, parsed) ==
    IF parsed = JsonError THEN PyStr(Strip(result.v)) ELSE parsed

\* Lines 188-207 for the "result" of the response body.
DecodeResult(result) ==
    IF IsDict(result) THEN result
    ELSE IF IsInt(result) THEN result
    ELSE IF IsText(result)
    THEN (IF result.k = "str" /\ Len(Strip(result.v)) = 0 THEN PyNone
          ELSE DecodedText(result, JsonLoads(result)))
    ELSE PyNone

\* Lines 183-207.
decode_kv_result(resp) == DecodeResult(resp.result)

\* The value get_track_metadata returns for the store's response (lines 307-316).
MetadataOfResponse(resp) ==
    IF resp.status = HttpOk THEN decode_kv_result(resp) ELSE PyNone

-----------------------------------------------------------------------------
(* Bounds and inputs *)

\* The clock starts at T0 and advances at most MaxTick seconds.
T0 == 100
MaxTick == 1

\* A listing has at most MaxEntries entries.
MaxEntries == 2

\* max_refreshes ranges over -1..MaxBudget.
MaxBudget == 1

\* The requests in progress; Sequential serves one request at a time.
Requests == {"r1", "r2"}

Sequential == {"r1"}

Budgets == (0 - 1)..MaxBudget

Tok(t) == PyStr(<<t>>)

Path(user, name) == PyStr(<<user, "/", name>>)

Feeds == {<<"u", "/", "likes">>, <<"u", "/", "tracks">>}

\* Flat entries as the extractor lists them: a track with no modification
\* signal, with signals 0, 100 and 200, and an entry with no identifier.
EntryPool ==
    { PyDict([id |-> Tok("a"), url |-> Path("u", "a")]),
      PyDict([id |-> Tok("a"), url |-> Path("u", "a"), last_modified |-> PyInt(0)]),
      PyDict([id |-> Tok("a"), url |-> Path("u", "a"), title |-> Tok("A"),
              timestamp |-> PyInt(100)]),
      PyDict([id |-> Tok("a"), url |-> Path("u", "a"), title |-> PyNone,
              last_modified |-> PyInt(200)]),
      PyDict([url |-> Path("u", "c"), name |-> Tok("C"), duration |-> Tok("x")]) }

\* What the extractor returns for a single track: a blob with fields outside
\* the allow-list, and a blob with nothing to keep.
RawPool ==
    { PyDict([id |-> Tok("a"), title |-> Tok("Full"), uploader |-> Tok("Art"),
              duration |-> PyStr(<<"1", "2">>), timestamp |-> PyInt(150),
              formats |-> Tok("signed-url"),
              thumbnails |-> PyList(<<PyDict([id |-> Tok("original"),
                                              url |-> Tok("http://i"),
                                              width |-> PyInt(5)]),
                                      PyDict([id |-> Tok("small")])>>)]),
      PyDict([formats |-> Tok("signed-url"), title |-> PyNone]) }

\* Records the store can hold under a track's metadata key that this version of
\* the program did not write (the store is a shared service reached over HTTP):
\* a record whose metadata is no dict, and a record with another version tag.
ForeignRecords ==
    { PyDict([version |-> TRACK_METADATA_VERSION, metadata |-> Tok("text")]),
      PyDict([version |-> PyStr(<<"v0">>),
              metadata |-> PyDict([title |-> Tok("Old")])]) }

\* What GET /get/<key> can answer for a metadata key: the store's own answers,
\* or the JSON text of a foreign record.
MetadataResponses(key) ==
    GetResponses(key) \cup {Response(HttpOk, JsonDumps(rec)) : rec \in ForeignRecords}

-----------------------------------------------------------------------------
(* The request state *)

NoLast ==
    [entry |-> PyNone, track_id |-> PyNone, cached_record |-> PyNone,
     candidate |-> PyNone, cached_last_modified |-> PyNone,
     entry_last_modified |-> PyNone, needs_refresh |-> FALSE, fetched |-> FALSE,
     raw |-> PyNone, new_metadata |-> PyNone, stored |-> FALSE, payload |-> PyNone,
     merged_with |-> PyNone, result |-> PyNone, gets |-> 0, sets |-> 0]

IdleReq ==
    [pc |-> "idle", hydrated |-> FALSE, feed |-> <<>>, n |-> 0,
     max_refreshes |-> 0, i |-> 0, remaining_refreshes |-> 0, metadata |-> PyNone,
     needing |-> 0, fetches |-> 0, kv_called |-> FALSE, last |-> NoLast,
     j |-> 0, item |-> PyNone, track_id |-> PyNone, fs_read |-> PyNone,
     fs_set |-> FALSE, pub |-> PyNone, fs_missed |-> FALSE, fs_took |-> FALSE,
     fs_gets |-> 0, fs_sets |-> 0]

\* Smart timestamps for every feed.
every_feed_smart(feed_path) == TRUE

\* Lines 504-514; "x in feed_path" on tokens.
should_use_smart_timestamps(feed_path) ==
    LET n == Len(feed_path)
        at(i, t) == i >= 1 /\ i <= n /\ feed_path[i] = t
    IN  \/ \E i \in 1..n : at(i, "/") /\ at(i + 1, "likes")
        \/ \E i \in 1..n : at(i, "/") /\ at(i + 1, "reposts")
        \/ \E i \in 1..n : at(i, "/") /\ at(i + 1, "sets") /\ at(i + 2, "/")
        \/ (at(n - 1, "/") /\ at(n, "sets"))

\* Credentials taken for granted.
credentials_assumed == TRUE

\* Line 173: both the URL and the token of the store are configured.
vercel_kv_available == kvAvailable

Init ==
    /\ kvAvailable \in BOOLEAN
    /\ now = T0
    /\ store = EmptyMap
    /\ written = EmptyMap
    /\ req = [r \in Requests |-> IdleReq]
    /\ probe = PyNone

\* time.time() advances.
Tick ==
    /\ now < T0 + MaxTick
    /\ now' = now + 1
    /\ UNCHANGED <<kvAvailable, store, written, req, probe>>

-----------------------------------------------------------------------------
(* hydrate_track_entries *)

\* Lines 441-443.
TrackIdOf(entry) ==
    IF IsDict(entry)
    THEN PyOr(PyOr(DGet(entry, "id"), DGet(entry, "track_id")), DGet(entry, "webpage_url"))
    ELSE PyNone

\* Lines 449-450: the cached metadata of a record with the current version tag.
CandidateMetadata(cached_record) ==
    IF IsDict(cached_record) /\ DGet(cached_record, "version") = TRACK_METADATA_VERSION
    THEN DGet(cached_record, "metadata")
    ELSE PyNone

\* Lines 449 and 451: the watermark of a record with the current version tag.
CachedLastModified(cached_record) ==
    IF IsDict(cached_record) /\ DGet(cached_record, "version") = TRACK_METADATA_VERSION
    THEN coerce_epoch_seconds(DGet(cached_record, "last_modified"))
    ELSE PyNone

\* Lines 453-457.
EntryLastModified(entry) ==
    IF ~IsDict(entry) THEN PyNone
    ELSE FirstCoerced(<<DGet(entry, "last_modified"), DGet(entry, "timestamp")>>)

\* Lines 459-461.
NeedsRefresh(metadata, entry_last_modified, cached_last_modified) ==
    \/ IsNone(metadata)
    \/ /\ Truthy(entry_last_modified)
       /\ Truthy(cached_last_modified)
       /\ IntGreater(entry_last_modified, cached_last_modified)

\* A watermark taken from the fetched metadata before the entry's own signal.
FetchedFirst(entry_last_modified, new_metadata) ==
    FirstCoerced(<<DGet(new_metadata, "last_modified"), DGet(new_metadata, "timestamp"),
                   entry_last_modified>>)

\* Lines 471-475.
StoredLastModified(entry_last_modified, new_metadata) ==
    IF ~IsNone(entry_last_modified) THEN entry_last_modified
    ELSE FirstCoerced(<<DGet(new_metadata, "last_modified"),
                        DGet(new_metadata, "timestamp")>>)

\* Lines 476-481.
Payload(entry_last_modified, new_metadata) ==
    PyDict([version |-> TRACK_METADATA_VERSION,
            fetched_at |-> PyInt(now),
            last_modified |-> StoredLastModified(entry_last_modified, new_metadata),
            metadata |-> new_metadata])

\* No fallback to the cached record.
CandidateOnly(metadata, cached_record) == metadata

\* Lines 485-486.
FinalMetadata(metadata, cached_record) ==
    IF IsNone(metadata) /\ IsDict(cached_record)
    THEN DGet(cached_record, "metadata")
    ELSE metadata

\* A fetch for every entry that needs one, whatever is left of the budget.
FetchUnbudgeted(needs_refresh, remaining_refreshes) == needs_refresh

\* Line 464.
ShouldFetch(needs_refresh, remaining_refreshes) ==
    needs_refresh /\ remaining_refreshes > 0

\* A fetch that costs nothing.
KeepBudget(remaining_refreshes) == remaining_refreshes

\* Line 467.
Spend(remaining_refreshes) == remaining_refreshes - 1

\* Line 488: the entry is normalized and appended, or the call raises.  The
\* appended entry is kept as last.result until the next one replaces it.
Appended(rq, done) ==
    IF IsRaised(done.result)
    THEN [rq EXCEPT !.pc = "failed", !.last = done]
    ELSE [rq EXCEPT !.pc = "hydrate", !.i = @ + 1, !.last = done, !.metadata = PyNone]

MergedWith(rq, last, final) ==
    Appended(rq, [last EXCEPT !.merged_with = final,
                              !.result = merge_entry_with_metadata(last.entry, final)])

\* Lines 485-488.
Emit(rq, last, metadata) ==
    MergedWith(rq, last, FinalMetadata(metadata, last.cached_record))

\* get_track_metadata calls the store (lines 299-305).
MetadataGetCalls(track_id) == vercel_kv_available /\ Truthy(track_id)

\* set_track_metadata calls the store (lines 321-331).
MetadataSetCalls(track_id, payload) ==
    vercel_kv_available /\ Truthy(track_id) /\ Truthy(payload)

\* The handler, lines 856-894: with credentials the listing is flat and is
\* hydrated with the configured budget; without, it goes to the renderer as is.
\* The feed path is drawn where it is first read, in create_podcast_xml.
DoGet(r) ==
    /\ req[r].pc = "idle"
    /\ \E n \in 0..MaxEntries, budget \in Budgets, feed \in Feeds :
           req' = [req EXCEPT ![r] =
                       IF vercel_kv_available
                       THEN [IdleReq EXCEPT !.pc = "hydrate", !.hydrated = TRUE, !.n = n,
                                            !.max_refreshes = budget,
                                            !.remaining_refreshes = Max(0, budget)]
                       ELSE [IdleReq EXCEPT !.pc = "render", !.n = n, !.feed = feed]]
    /\ UNCHANGED <<kvAvailable, now, store, written, probe>>

\* hydrate_track_entries(entries, max_refreshes) called as a function, lines
\* 432-438, its result then given to create_podcast_xml.
CallHydrate(r) ==
    /\ req[r].pc = "idle"
    /\ \E n \in 0..MaxEntries, budget \in Budgets :
           req' = [req EXCEPT ![r] =
                       [IdleReq EXCEPT !.pc = "hydrate", !.hydrated = TRUE, !.n = n,
                                       !.max_refreshes = budget,
                                       !.remaining_refreshes = Max(0, budget)]]
    /\ UNCHANGED <<kvAvailable, now, store, written, probe>>

\* Lines 463-464: the fetch follows, or the entry is emitted.
AfterLookup(rq, last, metadata) ==
    IF ShouldFetch(last.needs_refresh, rq.remaining_refreshes)
    THEN [rq EXCEPT !.pc = "fetch", !.last = last, !.metadata = metadata]
    ELSE Emit(rq, last, metadata)

\* Lines 440-461 for the next entry of the listing: the cache lookup and the
\* refresh decision; lines 485-488 too when no fetch follows.
HydrateLookupFrom(r, entries) ==
    /\ req[r].pc = "hydrate"
    /\ req[r].i < req[r].n
    /\ \E entry \in entries :
       \E track_id \in {TrackIdOf(entry)} :
       \E calls \in {MetadataGetCalls(track_id)} :
       \E resp \in (IF calls THEN MetadataResponses(MetadataKey(track_id))
                    ELSE {Response(HttpRaised, PyNone)}) :
       \E cached_record \in {IF calls THEN MetadataOfResponse(resp) ELSE PyNone} :
       \E metadata \in {CandidateMetadata(cached_record)},
          cached_last_modified \in {CachedLastModified(cached_record)},
          entry_last_modified \in {EntryLastModified(entry)} :
       \E needs_refresh \in
              {NeedsRefresh(metadata, entry_last_modified, cached_last_modified)} :
           req' = [req EXCEPT ![r] =
                      AfterLookup([@ EXCEPT !.kv_called = @ \/ calls,
                                            !.needing = @ + (IF needs_refresh THEN 1 ELSE 0)],
                                  [NoLast EXCEPT !.entry = entry, !.track_id = track_id,
                                                 !.cached_record = cached_record,
                                                 !.candidate = metadata,
                                                 !.cached_last_modified = cached_last_modified,
                                                 !.entry_last_modified = entry_last_modified,
                                                 !.needs_refresh = needs_refresh,
                                                 !.gets = StoreRequests(calls, resp.status)],
                                  metadata)]
    /\ UNCHANGED <<kvAvailable, now, store, written>>

HydrateLookup(r) == HydrateLookupFrom(r, EntryPool) /\ UNCHANGED probe

\* Lines 464-488: the fetch, the budget, the store write and the merge, for an
\* extractor that returns one of the blobs of raws or raises.
HydrateFetchFrom(r, raws) ==
    /\ req[r].pc = "fetch"
    /\ \E track_url \in {resolve_track_url(req[r].last.entry)} :
       IF IsRaised(track_url)
       THEN /\ req' = [req EXCEPT ![r].pc = "failed"]
            /\ UNCHANGED store
       ELSE \E raw \in (IF Truthy(track_url) THEN raws \cup {Raised} ELSE {PyNone}) :
            \E new_metadata \in {IF Truthy(track_url) /\ ~IsRaised(raw)
                                 THEN sanitize_track_metadata(raw) ELSE PyNone} :
            \E payload \in {IF Truthy(new_metadata)
                             THEN Payload(req[r].last.entry_last_modified, new_metadata)
                             ELSE PyNone} :
            \E calls \in {Truthy(new_metadata)
                              /\ MetadataSetCalls(req[r].last.track_id, payload)} :
            \E status \in (IF calls THEN SetStatuses ELSE {HttpRaised}) :
                /\ store' = IF calls /\ status = HttpOk
                            THEN Put(store, MetadataKey(req[r].last.track_id),
                                     JsonDumps(payload))
                            ELSE store
                /\ req' = [req EXCEPT ![r] =
                              Emit([@ EXCEPT !.remaining_refreshes = Spend(@),
                                             !.fetches = @ + 1,
                                             !.kv_called = @ \/ calls],
                                   [@.last EXCEPT !.fetched = TRUE, !.raw = raw,
                                                  !.new_metadata = new_metadata,
                                                  !.stored = calls /\ status = HttpOk,
                                                  !.payload = IF calls THEN payload
                                                              ELSE PyNone,
                                                  !.sets = StoreRequests(calls, status)],
                                   IF Truthy(new_metadata) THEN new_metadata
                                   ELSE @.metadata)]
    /\ UNCHANGED <<kvAvailable, now, written>>

HydrateFetch(r) == HydrateFetchFrom(r, RawPool) /\ UNCHANGED probe

\* Line 490 (and line 435 for an empty listing): the call returns, its locals
\* end, and create_podcast_xml starts on the n hydrated entries.
HydrateReturn(r) ==
    /\ req[r].pc = "hydrate"
    /\ req[r].i = req[r].n
    /\ \E feed \in Feeds :
           req' = [req EXCEPT ![r] =
                       [IdleReq EXCEPT !.pc = "render", !.hydrated = TRUE,
                                       !.n = req[r].n, !.feed = feed]]
    /\ UNCHANGED <<kvAvailable, now, store, written, probe>>

-----------------------------------------------------------------------------
(* create_podcast_xml: the items and their publication dates *)

\* d.get(f, default) on the dict payload d
GetOr(d, f, default) == IF f \in DOMAIN d THEN d[f] ELSE default

\* (x or "").strip() raises on a truthy value that is no string.
StripRaises(x) == Truthy(x) /\ ~IsStr(x)

\* Lines 526-532.
is_tracks_feed(feed_path) ==
    LET RECURSIVE NoSlash(_)
        NoSlash(p) == IF Len(p) > 0 /\ p[Len(p)] = "/"
                      THEN NoSlash(SubSeq(p, 1, Len(p) - 1)) ELSE p
        p == NoSlash(feed_path)
    IN  Len(p) >= 2 /\ p[Len(p) - 1] = "/" /\ p[Len(p)] \in {"tracks", "Tracks", "TRACKS"}

\* Lines 695-707 raise: the title, uploader, URL and description of the item.
ItemHeadRaises(item, feed_path) ==
    \/ ~IsDict(item)
    \/ StripRaises(DGet(item, "title"))
    \/ ~is_tracks_feed(feed_path) /\ StripRaises(DGet(item, "uploader"))
    \/ StripRaises(DGet(item, "webpage_url"))
    \/ /\ Truthy(DGet(item, "webpage_url"))
       /\ Truthy(DGet(item, "description"))
       /\ ~IsStr(DGet(item, "description"))

\* Lines 738-764 raise: the duration and the thumbnails of the item.
ItemTailRaises(item) ==
    \/ /\ Truthy(DGet(item, "webpage_url"))
       /\ LET d == GetOr(item.v, "duration", PyInt(0))
          IN  ~IsInt(d) /\ (~IsStr(d) \/ IsNone(PyIntOf(d)))
    \/ LET t == GetOr(item.v, "thumbnails", PyList(<<>>))
       IN  \/ IsNone(t) \/ IsInt(t)
           \/ IsStr(t) /\ Len(t.v) > 0
           \/ IsList(t) /\ \E i \in 1..Len(t.v) : ~IsDict(t.v[i])

\* A write for every item, whatever the read returned.
WriteAlways(first_seen_time) == TRUE

\* Line 720: the time is stored only when the read found nothing.
MustWrite(first_seen_time) == IsNone(first_seen_time)

\* Line 712.
ItemTrackId(item) ==
    PyOr(GetOr(item.v, "id", PyStr(<<>>)), GetOr(item.v, "webpage_url", PyStr(<<>>)))

\* The item is rendered with this publication date (lines 726-764), or the
\* rendering raises.  The item, the first-seen read and the date are kept until
\* the next item replaces them.
Publish(rq, pub) ==
    IF ItemTailRaises(rq.item)
    THEN [rq EXCEPT !.pc = "failed"]
    ELSE [rq EXCEPT !.pc = "render", !.j = @ + 1, !.pub = pub]

\* The metadata hydrate can merge into an entry: none, or a sanitized blob.
MetadataPool ==
    {PyNone} \cup {sanitize_track_metadata(raw) : raw \in RawPool}

\* The items create_podcast_xml is given: the identified entries of the listing
\* as hydrate normalizes them (one track, so one first-seen key for a feed), or
\* (line 893, without credentials) the extractor's entries as they are.
HydratedPool ==
    {merge_entry_with_metadata(e, m) :
         e \in {x \in EntryPool : Truthy(TrackIdOf(x))}, m \in MetadataPool} \ {Raised}

FlatPool == EntryPool \cup RawPool \cup {PyNone}

ItemPool(hydrated) == IF hydrated THEN HydratedPool ELSE FlatPool

\* Lines 732-734: the date of an item of an ordinary feed is its timestamp;
\* fromtimestamp raises on anything that is no number.
PublishOwn(rq, timestamp) ==
    IF timestamp.k = "int" THEN Publish(rq, timestamp) ELSE [rq EXCEPT !.pc = "failed"]

\* Lines 717-723: the read of the first-seen time; a write follows a miss.
AfterRead(rq, first_seen_time) ==
    IF MustWrite(first_seen_time)
    THEN [rq EXCEPT !.pc = "fswrite"]
    ELSE Publish(rq, first_seen_time)

\* Lines 693-718 and 732-736 for the next item: for a feed with smart timestamps
\* the first-seen read; the item is published here unless a write must follow.
RenderLookupFrom(r, items) ==
    /\ req[r].pc = "render"
    /\ req[r].j < req[r].n
    /\ \E item \in items :
       \E at \in {[req[r] EXCEPT !.item = item, !.track_id = PyNone, !.fs_read = PyNone,
                                !.fs_set = FALSE, !.pub = PyNone,
                                !.fs_missed = FALSE, !.fs_took = FALSE,
                                !.fs_gets = 0, !.fs_sets = 0]} :
         IF ItemHeadRaises(item, at.feed)
         THEN req' = [req EXCEPT ![r] = [at EXCEPT !.pc = "failed"]]
         ELSE IF ~should_use_smart_timestamps(at.feed)
         THEN req' = [req EXCEPT ![r] = PublishOwn(at, GetOr(item.v, "timestamp", PyInt(0)))]
         ELSE \E track_id \in {ItemTrackId(item)} :
              IF ~Truthy(track_id)
              THEN req' = [req EXCEPT ![r] = Publish(at, PyInt(now))]
              ELSE \E resp \in (IF vercel_kv_available
                                THEN GetResponses(FirstSeenKey(at.feed, track_id))
                                ELSE {Response(HttpRaised, PyNone)}) :
                   \E first_seen_time \in {IF vercel_kv_available
                                           THEN FirstSeenOfResponse(resp) ELSE PyNone} :
                       req' = [req EXCEPT ![r] =
                                  AfterRead([at EXCEPT
                                                !.track_id = track_id,
                                                !.fs_read = first_seen_time,
                                                !.fs_missed = vercel_kv_available
                                                                  /\ NoRecord(resp),
                                                !.fs_gets = StoreRequests(
                                                                vercel_kv_available,
                                                                resp.status),
                                                !.kv_called = @ \/ vercel_kv_available],
                                            first_seen_time)]
    /\ UNCHANGED <<kvAvailable, now, store, written>>

RenderLookup(r) == RenderLookupFrom(r, ItemPool(req[r].hydrated)) /\ UNCHANGED probe

\* A failed write ends the request.
AbortOnWriteError(rq, took) ==
    IF took THEN Publish(rq, PyInt(now)) ELSE [rq EXCEPT !.pc = "failed"]

\* Lines 721-723: the current time is the publication date, whatever
\* set_track_first_seen_time returned.
AfterWrite(rq, took) == Publish(rq, PyInt(now))

\* Lines 720-723: the track was not seen before; the current time is stored and
\* is the publication date.
RenderWrite(r) ==
    /\ req[r].pc = "fswrite"
    /\ \E key \in {FirstSeenKey(req[r].feed, req[r].track_id)} :
       \E status \in (IF vercel_kv_available THEN SetStatuses ELSE {HttpRaised}) :
       \E took \in {vercel_kv_available /\ status = HttpOk} :
           /\ store' = IF took THEN Put(store, key, PyStr(IntToStr(now))) ELSE store
           /\ written' = IF took THEN Put(written, key, now) ELSE written
           /\ req' = [req EXCEPT ![r] =
                         AfterWrite([@ EXCEPT !.kv_called = @ \/ vercel_kv_available,
                                              !.fs_set = vercel_kv_available,
                                              !.fs_sets = StoreRequests(
                                                              vercel_kv_available, status),
                                              !.fs_took = took],
                                    took)]
    /\ UNCHANGED <<kvAvailable, now, probe>>

\* Line 766 and lines 928-931: the feed is returned with status 200.
RenderReturn(r) ==
    /\ req[r].pc = "render"
    /\ req[r].j = req[r].n
    /\ req' = [req EXCEPT ![r].pc = "done"]
    /\ UNCHANGED <<kvAvailable, now, store, written, probe>>

\* The request is over (with the feed, or lines 932-936 with status 400).
Finish(r) ==
    /\ req[r].pc \in {"done", "failed"}
    /\ req' = [req EXCEPT ![r] = IdleReq]
    /\ UNCHANGED <<kvAvailable, now, store, written, probe>>

Next ==
    \/ Tick
    \/ \E r \in Sequential :
         \/ DoGet(r)
         \/ CallHydrate(r)
         \/ HydrateLookup(r)
         \/ HydrateFetch(r)
         \/ HydrateReturn(r)
         \/ RenderLookup(r)
         \/ RenderWrite(r)
         \/ RenderReturn(r)
         \/ Finish(r)

Spec == Init /\ [][Next]_vars

-----------------------------------------------------------------------------
(* Two requests in create_podcast_xml at once *)

\* Both requests have their hydrated listing of one entry and start the item
\* loop of create_podcast_xml (line 693), each for a feed of its own choice.
ConcurrentInit ==
    /\ kvAvailable = TRUE
    /\ now = T0
    /\ store = EmptyMap
    /\ written = EmptyMap
    /\ \E feeds \in [Requests -> Feeds] :
           req = [r \in Requests |->
                     [IdleReq EXCEPT !.pc = "render", !.hydrated = TRUE, !.n = 1,
                                     !.feed = feeds[r]]]
    /\ probe = PyNone

\* The steps of the two requests interleave in any order, and with the clock.
ConcurrentNext ==
    \/ Tick
    \/ \E r \in Requests :
         \/ RenderLookup(r)
         \/ RenderWrite(r)
         \/ RenderReturn(r)
         \/ Finish(r)

ConcurrentSpec == ConcurrentInit /\ [][ConcurrentNext]_vars

-----------------------------------------------------------------------------
(* merge_entry_with_metadata on its own: one call on a drawn entry and metadata *)

Absent == [k |-> "absent"]

\* The dict of the fields whose value is not Absent; fields is a sequence of
\* <<name, value>> pairs with distinct names.
DictOf(fields) ==
    LET present == {i \in DOMAIN fields : fields[i][2] # Absent}
    IN  PyDict([f \in {fields[i][1] : i \in present} |->
                   fields[CHOOSE i \in present : fields[i][1] = f][2]])

\* Flat entries: every field absent, null or with a value of one of the types
\* the extractor gives it.
FlatEntries ==
    { DictOf(<<<<"title", t>>, <<"name", n>>, <<"uploader", u>>, <<"duration", d>>,
               <<"description", ds>>, <<"url", l>>, <<"timestamp", ts>>>>) :
          t \in {Absent, PyNone, Tok("T")},
          n \in {Absent, PyStr(<<>>), Tok("N")},
          u \in {Absent, Tok("U")},
          d \in {Absent, PyNone, PyInt(7), PyStr(<<"1", "2", ".", "5">>)},
          ds \in {Absent, PyNone, Tok("D")},
          l \in {Absent, Path("u", "a")},
          ts \in {Absent, PyInt(T0)} }

\* The metadata given to the merge: none, a cached payload, or a cached payload
\* with an empty title.
MergeMetadata ==
    {PyNone, PyDict([title |-> Tok("M"), duration |-> PyInt(9), description |-> PyNone]),
     PyDict([title |-> PyStr(<<>>), uploader |-> Tok("Art")])}

NormalizerInit ==
    /\ kvAvailable = FALSE
    /\ now = T0
    /\ store = EmptyMap
    /\ written = EmptyMap
    /\ req = [r \in Requests |-> IdleReq]
    /\ \E entry \in FlatEntries, metadata \in MergeMetadata :
           probe = [op |-> "call", entry |-> entry, metadata |-> metadata,
                    result |-> PyNone]

\* Lines 378-429: the call returns the merged entry, or raises.
Normalize ==
    /\ probe.op = "call"
    /\ probe' = [probe EXCEPT !.op = "returned",
                              !.result = merge_entry_with_metadata(probe.entry,
                                                                   probe.metadata)]
    /\ UNCHANGED <<kvAvailable, now, store, written, req>>

NormalizerNext == Normalize

NormalizerSpec == NormalizerInit /\ [][NormalizerNext]_vars

-----------------------------------------------------------------------------
(* coerce_epoch_seconds on its own: one call on a drawn int, and one on its result *)

\* The ints drawn are within MaxDelta of 0, of 10^9 and of 10^12.
MaxDelta == 8

\* Seconds from 0 and from 10^9 up, negative numbers, the numbers up to 10^12
\* and from 10^12 up, and milliseconds t * 1000 for t from 10^9 up.
EpochInputs ==
    UNION { { PyInt(d), PyInt(0 - d), PyInt(BigUnit + d),
              IntOfThousands(BigUnit - 1, 999 - d),
              IntOfThousands(BigUnit, d),
              IntOfThousands(BigUnit + d, 0) } : d \in 0..MaxDelta }

CoerceInit ==
    /\ kvAvailable = FALSE
    /\ now = T0
    /\ store = EmptyMap
    /\ written = EmptyMap
    /\ req = [r \in Requests |-> IdleReq]
    /\ \E value \in EpochInputs :
           probe = [op |-> "call", value |-> value, result |-> PyNone, again |-> PyNone]

\* Lines 210-219: the call returns.
Coerce ==
    /\ probe.op = "call"
    /\ probe' = [probe EXCEPT !.op = "coerced",
                              !.result = coerce_epoch_seconds(probe.value)]
    /\ UNCHANGED <<kvAvailable, now, store, written, req>>

\* Lines 210-219 again, on the value the first call returned.
Recoerce ==
    /\ probe.op = "coerced"
    /\ probe' = [probe EXCEPT !.op = "recoerced",
                              !.again = coerce_epoch_seconds(probe.result)]
    /\ UNCHANGED <<kvAvailable, now, store, written, req>>

CoerceNext == Coerce \/ Recoerce

CoerceSpec == CoerceInit /\ [][CoerceNext]_vars

-----------------------------------------------------------------------------
(* The refresh of one entry on its own: lines 463-488 for a drawn entry and blob *)

\* Entries of the track a: the last_modified and timestamp fields each absent or
\* with a value, one of them null and one a text that does not coerce.
RefreshEntries ==
    { DictOf(<<<<"id", Tok("a")>>, <<"url", Path("u", "a")>>,
               <<"last_modified", lm>>, <<"timestamp", ts>>>>) :
          lm \in {Absent, PyNone, PyInt(0), PyInt(200), Tok("soon")},
          ts \in {Absent, PyInt(100)} }

\* Extractor blobs: the same two fields absent, null, a number, digits, or a
\* text that does not coerce.
RefreshRaws ==
    { DictOf(<<<<"title", Tok("Full")>>, <<"formats", Tok("signed-url")>>,
               <<"last_modified", lm>>, <<"timestamp", ts>>>>) :
          lm \in {Absent, PyInt(160), PyStr(<<"1", "6", "0">>), Tok("soon")},
          ts \in {Absent, PyNone, PyInt(150)} }

\* The call (budget 1, credentials set, store empty) has looked the entry up
\* and found no record: lines 440-464 have run and the fetch is next.
RefreshInit ==
    /\ kvAvailable = TRUE
    /\ now = T0
    /\ store = EmptyMap
    /\ written = EmptyMap
    /\ \E entry \in RefreshEntries :
           req = [r \in Requests |->
                     IF r \in Sequential
                     THEN AfterLookup([IdleReq EXCEPT !.pc = "hydrate", !.hydrated = TRUE,
                                                      !.n = 1, !.max_refreshes = 1,
                                                      !.remaining_refreshes = 1,
                                                      !.kv_called = TRUE, !.needing = 1],
                                      [NoLast EXCEPT !.entry = entry,
                                                     !.track_id = TrackIdOf(entry),
                                                     !.entry_last_modified =
                                                         EntryLastModified(entry),
                                                     !.needs_refresh = TRUE],
                                      PyNone)
                     ELSE IdleReq]
    /\ probe = PyNone

RefreshNext ==
    \E r \in Sequential : HydrateFetchFrom(r, RefreshRaws) /\ UNCHANGED probe

RefreshSpec == RefreshInit /\ [][RefreshNext]_vars

-----------------------------------------------------------------------------
(* Claims about the refresh budget and the first-seen record *)

\* What the code falls back to without a fetch: the cached record's metadata,
\* if there is a record, else nothing.
StaleMetadata(cached_record) ==
    IF IsDict(cached_record) THEN DGet(cached_record, "metadata") ELSE PyNone

\* C1, with "never exceeds b" read as "never exceeds max(0, b)": in one hydrate
\* call with budget b, the calls of fetch_track_metadata (the one in progress
\* included) number min(max(0, b), k), k the entries found to need a refresh so
\* far; they never exceed max(0, b); and an entry that needs a refresh but gets
\* no fetch is emitted from the stale cached metadata or from the flat entry
\* alone, with the budget at zero.
C1_FetchesWithinBudget ==
    \A r \in Requests :
        LET rq == req[r]
            pending == IF rq.pc = "fetch" THEN 1 ELSE 0
        IN  /\ rq.fetches + pending = Min(Max(0, rq.max_refreshes), rq.needing)
            /\ rq.fetches + pending <= Max(0, rq.max_refreshes)
            /\ (rq.last.needs_refresh /\ ~rq.last.fetched /\ rq.pc # "fetch"
                    /\ ~IsNone(rq.last.result))
                   => /\ rq.remaining_refreshes = 0
                      /\ IsNone(rq.last.new_metadata)
                      /\ rq.last.result =
                             merge_entry_with_metadata(rq.last.entry,
                                                       StaleMetadata(rq.last.cached_record))

\* C1 witness: more entries needed a refresh than the budget allowed, and the
\* last of them was emitted without a fetch.
C1_BudgetExhausted ==
    \E r \in Requests :
        /\ req[r].pc = "hydrate" /\ req[r].i = req[r].n
        /\ req[r].max_refreshes >= 1
        /\ req[r].needing > req[r].max_refreshes
        /\ req[r].fetches = req[r].max_refreshes
        /\ req[r].last.needs_refresh /\ ~req[r].last.fetched

\* C2: a first-seen value the store took is never changed by a later step.
C2_FirstSeenNeverOverwritten ==
    [][\A key \in DOMAIN written :
           key \in DOMAIN store' /\ store'[key] = store[key]]_vars

\* C3: set_track_first_seen_time is called only after the request's read of
\* that key returned nothing; when the read returned a value, that value is the
\* item's publication date, the request writes nothing for the item, and the
\* stored value stays what it was.
C3_WriteOnlyAfterMiss ==
    \A r \in Requests :
        LET rq == req[r] IN
        /\ rq.pc = "fswrite" => IsNone(rq.fs_read)
        /\ rq.fs_set => IsNone(rq.fs_read)
        /\ ~IsNone(rq.fs_read)
               => /\ ~rq.fs_set
                  /\ rq.pc \in {"render", "done"} => rq.pub = rq.fs_read
                  /\ LET key == FirstSeenKey(rq.feed, rq.track_id)
                     IN  key \in DOMAIN written /\ rq.fs_read = PyInt(written[key])

\* C3 witness: a request at a later time read the value stored earlier and
\* published it.
C3_ReadValuePublished ==
    \E r \in Requests :
        /\ req[r].pc = "render"
        /\ ~IsNone(req[r].fs_read)
        /\ req[r].pub = req[r].fs_read
        /\ req[r].fs_read.v < now

\* C4: whatever int v the store took for a first-seen key, a successful read
\* of the key decodes the stored string back to v, and a request that read a
\* value holds v.
C4_FirstSeenRoundTrip ==
    /\ \A key \in DOMAIN written :
           /\ key \in DOMAIN store
           /\ store[key] = PyStr(IntToStr(written[key]))
           /\ FirstSeenOfResponse(Response(HttpOk, store[key])) = PyInt(written[key])
    /\ \A r \in Requests :
           ~IsNone(req[r].fs_read)
               => req[r].fs_read = PyInt(written[FirstSeenKey(req[r].feed, req[r].track_id)])

\* C4 witness: a request read a stored first-seen value of three digits.
C4_ValueReadBack ==
    \E r \in Requests :
        /\ ~IsNone(req[r].fs_read)
        /\ req[r].fs_read.v >= T0
        /\ Len(store[FirstSeenKey(req[r].feed, req[r].track_id)].v) >= 3

-----------------------------------------------------------------------------
(* Claims about the refresh decision, sanitization and the missing credentials *)

\* C1 as stated: the number of fetch_track_metadata calls of a hydrate call
\* equals min(max(0, b), k) and never exceeds the budget b it was given.
C1_NeverExceedsBudget ==
    \A r \in Requests :
        LET rq == req[r]
            pending == IF rq.pc = "fetch" THEN 1 ELSE 0
        IN  rq.pc \in {"hydrate", "fetch"}
                => /\ rq.fetches + pending = Min(Max(0, rq.max_refreshes), rq.needing)
                   /\ rq.fetches + pending <= rq.max_refreshes

\* C5: for an entry with a track identifier, a refresh is required exactly when
\* there is no cached metadata, or the cached watermark and the entry's signal
\* are both present and the entry's signal is strictly the newer.
C5_RefreshExactlyWhenStale ==
    \A r \in Requests :
        LET l == req[r].last IN
        (~IsNone(l.entry) /\ Truthy(l.track_id))
            => (l.needs_refresh
                    <=> \/ IsNone(l.candidate)
                        \/ /\ ~IsNone(l.entry_last_modified)
                           /\ ~IsNone(l.cached_last_modified)
                           /\ IntGreater(l.entry_last_modified, l.cached_last_modified))

\* C6: every metadata record in the store, and every record a hydrate call has
\* just stored, has a metadata payload whose field names are all in
\* TRACK_METADATA_FIELDS.
C6_StoredFieldsAllowed ==
    /\ \A key \in DOMAIN store :
           key[1] = TRACK_METADATA_PREFIX[1]
               => LET record == MetadataOfResponse(Response(HttpOk, store[key]))
                  IN  /\ IsDict(record)
                      /\ IsDict(DGet(record, "metadata"))
                      /\ DOMAIN DGet(record, "metadata").v \subseteq TRACK_METADATA_FIELDS
    /\ \A r \in Requests :
           req[r].last.stored
               => /\ IsDict(DGet(req[r].last.payload, "metadata"))
                  /\ DOMAIN DGet(req[r].last.payload, "metadata").v
                         \subseteq TRACK_METADATA_FIELDS

\* C6 witness: the extractor's blob had a field outside the allow-list and the
\* record made from it is in the store.
C6_UnlistedFieldDropped ==
    \E r \in Requests :
        /\ req[r].last.stored
        /\ IsDict(req[r].last.raw)
        /\ "formats" \in DOMAIN req[r].last.raw.v
        /\ MetadataKey(req[r].last.track_id) \in DOMAIN store

\* C7: without credentials the store is never called: it stays empty, no
\* request has called it, every read is a miss and every write fails.
C7_NoStoreCallWithoutCredentials ==
    ~kvAvailable
        => /\ store = EmptyMap
           /\ written = EmptyMap
           /\ \A r \in Requests :
                  LET rq == req[r] IN
                  /\ ~rq.kv_called
                  /\ IsNone(rq.last.cached_record)
                  /\ ~rq.last.stored
                  /\ IsNone(rq.fs_read)
                  /\ ~rq.fs_set

\* C7 witness: without credentials, a request hydrated its entries, rendered
\* them for a feed with smart timestamps, and dated an identified item now.
C7_ServedWithoutCredentials ==
    \E r \in Requests :
        /\ ~kvAvailable
        /\ req[r].pc = "done"
        /\ req[r].hydrated /\ req[r].n >= 1
        /\ should_use_smart_timestamps(req[r].feed)
        /\ Truthy(req[r].track_id)
        /\ req[r].pub = PyInt(now)

\* C8: without credentials, every entry hydrate emits is the flat entry
\* normalized with no metadata.
C8_FlatWithoutCredentials ==
    ~kvAvailable
        => \A r \in Requests :
               ~IsNone(req[r].last.result)
                   => req[r].last.result
                          = merge_entry_with_metadata(req[r].last.entry, PyNone)

\* C9: every entry hydrate emits has a non-null title, uploader, duration,
\* description, timestamp and webpage_url.
C9_OutputFieldsNonNull ==
    \A r \in Requests :
        IsDict(req[r].last.result)
            => \A f \in {"title", "uploader", "duration", "description",
                         "timestamp", "webpage_url"} :
                   ~IsNone(DGet(req[r].last.result, f))

\* C10: an entry with no title, uploader, duration or description key, merged
\* with no metadata, comes out with the title "Unknown Title" (the name field
\* when the entry has one that is not empty), the uploader "Unknown Artist",
\* the duration 0 and the description "".
C10_NormalizerDefaults ==
    (/\ probe.op = "returned"
     /\ IsNone(probe.metadata)
     /\ DOMAIN probe.entry.v
            \cap {"title", "uploader", "duration", "description"} = {})
        => /\ IsDict(probe.result)
           /\ DGet(probe.result, "title")
                  = (IF Truthy(DGet(probe.entry, "name")) THEN DGet(probe.entry, "name")
                     ELSE PyStr(<<"Unknown Title">>))
           /\ DGet(probe.result, "uploader") = PyStr(<<"Unknown Artist">>)
           /\ DGet(probe.result, "duration") = PyInt(0)
           /\ DGet(probe.result, "description") = PyStr(<<>>)

\* C10 witness: an entry with none of the four fields and no name was merged
\* with no metadata and has the title "Unknown Title".
C10_UnknownTitleGiven ==
    /\ probe.op = "returned"
    /\ IsNone(probe.metadata)
    /\ DOMAIN probe.entry.v
           \cap {"title", "name", "uploader", "duration", "description"} = {}
    /\ DGet(probe.result, "title") = PyStr(<<"Unknown Title">>)

-----------------------------------------------------------------------------
(* Claims about what the store returns, concurrent requests and store errors *)

\* C11: hydrate never raises because of what a metadata read returned: an entry
\* that merges without metadata is emitted, whatever the cached value was.
C11_HydrateNeverRaises ==
    \A r \in Requests :
        LET l == req[r].last IN
        (~IsNone(l.entry) /\ ~IsRaised(merge_entry_with_metadata(l.entry, PyNone)))
            => ~IsRaised(l.result)

\* C12: two requests that both found no first-seen record for the same feed and
\* track, and both stored a time, publish the same date, and the store holds it.
C12_RaceBenign ==
    \A r1, r2 \in Requests :
        (/\ r1 # r2
         /\ req[r1].fs_missed /\ req[r1].fs_took
         /\ req[r2].fs_missed /\ req[r2].fs_took
         /\ req[r1].feed = req[r2].feed
         /\ req[r1].track_id = req[r2].track_id)
            => /\ req[r1].pub = req[r2].pub
               /\ store[FirstSeenKey(req[r1].feed, req[r1].track_id)]
                      = PyStr(IntToStr(req[r1].pub.v))

\* C13: for a feed with smart timestamps, a read that returns nothing (no
\* record, or a store error) is followed by the write and never ends the
\* request; the write step dates the item with the current time whatever the
\* store answers, and when the store takes the write it holds that same time.
\* The request fails in that step only if the rest of the item cannot be
\* rendered.
C13_MissPublishesNow ==
    [][\A r \in Requests :
          /\ (/\ req[r].pc = "render"
              /\ req'[r].pc # "done" /\ req'[r] # req[r]
              /\ Truthy(req'[r].track_id)
              /\ IsNone(req'[r].fs_read))
                 => req'[r].pc = "fswrite"
          /\ (req[r].pc = "fswrite" /\ req'[r] # req[r])
                 => /\ req'[r].pc = "failed" <=> ItemTailRaises(req[r].item)
                    /\ req'[r].pc # "failed"
                           => req'[r].pc = "render" /\ req'[r].pub = PyInt(now)
                    /\ req'[r].fs_took
                           => /\ store'[FirstSeenKey(req[r].feed, req[r].track_id)]
                                     = PyStr(IntToStr(now))
                              /\ written'[FirstSeenKey(req[r].feed, req[r].track_id)]
                                     = now
                    /\ ~req'[r].fs_took => store' = store
      ]_vars

\* C13 witness: the store had no record, the write failed, and the request
\* still returned its feed with the item dated now.
C13_ServedDespiteWriteError ==
    \E r \in Requests :
        /\ kvAvailable
        /\ req[r].pc = "done"
        /\ req[r].fs_missed
        /\ req[r].fs_set /\ ~req[r].fs_took
        /\ req[r].pub = PyInt(now)

\* C14: for an int t, coerce_epoch_seconds returns t when 0 <= t <= 10^12 and
\* t div 1000 when t > 10^12, so that t * 1000 above 10^12 comes back as t; and
\* the returned value, coerced again, is unchanged unless it is above 10^12.
C14_SecondsOrMilliseconds ==
    probe.op \in {"coerced", "recoerced"}
        => /\ (probe.value.k = "int" /\ probe.value.v >= 0)
                  => probe.result = probe.value
           /\ (probe.value.k = "big" /\ ~AboveMillis(probe.value))
                  => probe.result = probe.value
           /\ AboveMillis(probe.value)
                  => /\ probe.result = PyInt(probe.value.hi)
                     /\ probe.value.lo = 0
                            => IntOfThousands(probe.result.v, 0) = probe.value
           /\ (probe.op = "recoerced" /\ ~AboveMillis(probe.result))
                  => probe.again = probe.result

\* C14 witness: milliseconds t * 1000 above 10^12 came back as t, and t coerced
\* again stayed t.
C14_MillisecondsDivided ==
    /\ probe.op = "recoerced"
    /\ AboveMillis(probe.value)
    /\ probe.value.lo = 0
    /\ probe.result = PyInt(probe.value.hi)
    /\ probe.again = probe.result

-----------------------------------------------------------------------------
(* Claims about the steps of hydrate_track_entries *)

\* C15: for an entry with no track identifier hydrate reads no cached record,
\* makes no fetch (none in progress either, so no budget is spent), writes no
\* record, and emits the flat entry normalized with no metadata.
C15_UnidentifiedSkipsCaching ==
    \A r \in Requests :
        LET l == req[r].last IN
        (~IsNone(l.entry) /\ ~Truthy(l.track_id))
            => /\ IsNone(l.cached_record)
               /\ req[r].pc # "fetch" /\ ~l.fetched
               /\ ~l.stored
               /\ ~IsNone(l.result)
                      => l.result = merge_entry_with_metadata(l.entry, PyNone)

\* C16: the metadata of a cached record whose version tag is missing or is not
\* the current one is never merged: the entry is emitted from the metadata
\* just fetched, if any, else from the flat entry alone.
C16_VersionGatesMerge ==
    \A r \in Requests :
        LET l == req[r].last IN
        (/\ IsDict(l.cached_record)
         /\ DGet(l.cached_record, "version") # TRACK_METADATA_VERSION
         /\ ~IsNone(l.result))
            => l.result = merge_entry_with_metadata(
                              l.entry,
                              IF Truthy(l.new_metadata) THEN l.new_metadata ELSE PyNone)

\* C17: in one hydrate call with budget b, after j attempted fetches, failed
\* ones included, the remaining budget is max(0, b) - j.
C17_BudgetSpentPerAttempt ==
    \A r \in Requests :
        /\ req[r].remaining_refreshes
               = Max(0, req[r].max_refreshes) - req[r].fetches
        /\ req[r].last.fetched => req[r].fetches >= 1

\* C17 witness: the one fetch the budget allowed failed, and entries are still
\* to come with nothing left for them.
C17_FailedFetchSpent ==
    \E r \in Requests :
        /\ req[r].pc = "hydrate" /\ req[r].i < req[r].n
        /\ req[r].max_refreshes = 1
        /\ req[r].last.fetched /\ IsNone(req[r].last.new_metadata)
        /\ req[r].remaining_refreshes = 0

\* C18: the step in which a refresh fetch fails, or returns nothing to keep,
\* leaves the store as it was, records no write, and emits the entry merged
\* with the metadata of the cached record, or with none if there is no record.
C18_FailedRefreshKeepsCache ==
    [][\A r \in Requests :
          (/\ req[r].pc = "fetch" /\ req'[r].pc # "fetch"
           /\ req'[r].last.fetched
           /\ ~Truthy(req'[r].last.new_metadata))
              => /\ store' = store
                 /\ ~req'[r].last.stored /\ IsNone(req'[r].last.payload)
                 /\ IsDict(req'[r].last.result)
                 /\ req'[r].last.result
                        = merge_entry_with_metadata(
                              req[r].last.entry,
                              StaleMetadata(req[r].last.cached_record))
      ]_vars

\* C18 witness: the cached record of the track was stale, the refresh failed,
\* the record is still in the store and the entry has the cached title.
C18_StaleServedAfterFailure ==
    \E r \in Requests :
        LET l == req[r].last IN
        /\ l.fetched /\ IsNone(l.new_metadata)
        /\ IsDict(l.cached_record)
        /\ ~IsNone(l.cached_last_modified)
        /\ MetadataKey(l.track_id) \in DOMAIN store
        /\ JsonLoads(store[MetadataKey(l.track_id)]) = l.cached_record
        /\ IsDict(l.result)
        /\ DGet(l.result, "title") = DGet(DGet(l.cached_record, "metadata"), "title")
        /\ DGet(l.result, "title") # DGet(l.entry, "title")

-----------------------------------------------------------------------------
(* Claims about the merge and the stored record *)

\* C19: in the merge of a flat entry with metadata, a title or uploader the
\* entry has is replaced by the metadata's value when that value is not empty,
\* and is left as it is when the metadata's value is absent, null or "".
C19_EmptyMetadataKeepsFlat ==
    (probe.op = "returned" /\ IsDict(probe.metadata) /\ IsDict(probe.result))
        => \A f \in {"title", "uploader"} \cap DOMAIN probe.entry.v :
               DGet(probe.result, f)
                   = (IF Truthy(DGet(probe.metadata, f)) THEN DGet(probe.metadata, f)
                      ELSE DGet(probe.entry, f))

\* C20: a refresh that fetched metadata calls the store with a record of the
\* current version tag, the sanitized metadata, and as watermark the entry's
\* own signal (its last_modified, else its timestamp) if that coerces, else
\* the new metadata's last_modified, else its timestamp, else null; when the
\* store takes the write, that record is what the key holds and reads back as.
C20_WatermarkPreference ==
    \A r \in Requests :
        LET l == req[r].last
            own == coerce_epoch_seconds(DGet(l.entry, "last_modified"))
            signal == IF ~IsNone(own) THEN own
                      ELSE coerce_epoch_seconds(DGet(l.entry, "timestamp"))
            fetched_lm == coerce_epoch_seconds(DGet(l.new_metadata, "last_modified"))
            fetched_ts == coerce_epoch_seconds(DGet(l.new_metadata, "timestamp"))
            key == MetadataKey(l.track_id)
        IN  (l.fetched /\ Truthy(l.new_metadata))
                => /\ l.new_metadata = sanitize_track_metadata(l.raw)
                   /\ IsDict(l.payload)
                   /\ DGet(l.payload, "version") = TRACK_METADATA_VERSION
                   /\ DGet(l.payload, "metadata") = l.new_metadata
                   /\ DGet(l.payload, "last_modified")
                          = (IF ~IsNone(signal) THEN signal
                             ELSE IF ~IsNone(fetched_lm) THEN fetched_lm
                             ELSE fetched_ts)
                   /\ l.stored
                          => /\ key \in DOMAIN store
                             /\ store[key] = JsonDumps(l.payload)
                             /\ MetadataOfResponse(Response(HttpOk, store[key]))
                                    = l.payload

\* C20 witness: the entry had no signal of its own, the fetched metadata had a
\* last_modified of 160 and a timestamp of 150, and the stored record has the
\* watermark 160.
C20_FetchedLastModifiedStored ==
    \E r \in Requests :
        LET l == req[r].last IN
        /\ l.stored
        /\ IsNone(l.entry_last_modified)
        /\ DGet(l.new_metadata, "timestamp") = PyInt(150)
        /\ DGet(l.payload, "last_modified") = PyInt(160)
        /\ DGet(JsonLoads(store[MetadataKey(l.track_id)]), "last_modified") = PyInt(160)

-----------------------------------------------------------------------------
(* One hydrate call, or one render, from its start to its return, with a log *)
(* of the entries given, the entries emitted and the store requests sent     *)

\* Listings of up to MaxEntries flat entries.
Listings == UNION {[1..n -> EntryPool] : n \in 0..MaxEntries}

TraceLog(entries) ==
    [op |-> "trace", entries |-> entries, out |-> <<>>, merged |-> <<>>,
     needed |-> <<>>, fetched |-> <<>>, gets |-> 0, sets |-> 0]

\* A loop that takes the entries from the last to the first.
LastFirst(entries, i) == entries[Len(entries) - i]

\* Line 440: the entry of the loop's pass number i + 1.
EntryAt(entries, i) == entries[i + 1]

\* The log after a step that left the request as rq: when the step finished an
\* entry, its store requests are counted, and when it emitted the entry (line
\* 488), the entry is appended with what was decided for it.
Observed(log, rq) ==
    IF rq.pc = "fetch" THEN log
    ELSE IF rq.pc = "failed"
    THEN [log EXCEPT !.gets = @ + rq.last.gets, !.sets = @ + rq.last.sets]
    ELSE [log EXCEPT !.gets = @ + rq.last.gets, !.sets = @ + rq.last.sets,
                     !.out = Append(@, rq.last.result),
                     !.merged = Append(@, rq.last.merged_with),
                     !.needed = Append(@, rq.last.needs_refresh),
                     !.fetched = Append(@, rq.last.fetched)]

\* hydrate_track_entries(entries, budget) has been called (lines 432-438), or
\* create_podcast_xml starts on n items for a feed (line 693).
TraceInit ==
    /\ kvAvailable = TRUE
    /\ now = T0
    /\ store = EmptyMap
    /\ written = EmptyMap
    /\ \/ \E entries \in Listings, budget \in Budgets :
              /\ probe = TraceLog(entries)
              /\ req = [r \in Requests |->
                           IF r \in Sequential
                           THEN [IdleReq EXCEPT !.pc = "hydrate", !.hydrated = TRUE,
                                                !.n = Len(entries),
                                                !.max_refreshes = budget,
                                                !.remaining_refreshes = Max(0, budget)]
                           ELSE IdleReq]
       \/ \E n \in 0..MaxEntries, feed \in Feeds :
              /\ probe = TraceLog(<<>>)
              /\ req = [r \in Requests |->
                           IF r \in Sequential
                           THEN [IdleReq EXCEPT !.pc = "render", !.hydrated = TRUE,
                                                !.n = n, !.feed = feed]
                           ELSE IdleReq]

\* Lines 440-461 for the next entry of the listing given.
TraceLookup(r) ==
    /\ req[r].pc = "hydrate"
    /\ req[r].i < Len(probe.entries)
    /\ HydrateLookupFrom(r, {EntryAt(probe.entries, req[r].i)})
    /\ probe' = Observed(probe, req'[r])

\* Lines 464-488.
TraceFetch(r) ==
    /\ HydrateFetchFrom(r, RawPool)
    /\ probe' = Observed(probe, req'[r])

TraceNext ==
    \E r \in Sequential :
        \/ TraceLookup(r)
        \/ TraceFetch(r)
        \/ RenderLookup(r)
        \/ RenderWrite(r)
        \/ RenderReturn(r)

TraceSpec == TraceInit /\ [][TraceNext]_vars

-----------------------------------------------------------------------------
(* Claims about the store traffic and the order of one call *)

\* The entries of the logged call that needed a refresh among the first k.
NeededAmong(k) == Cardinality({j \in 1..k : probe.needed[j]})

C27_OneOutputPerInputInOrder ==
    \A r \in Sequential :
        LET rq == req[r]
            b == Max(0, rq.max_refreshes)
        IN  rq.pc \in {"hydrate", "fetch"}
                => /\ Len(probe.out) = rq.i
                   /\ \A k \in 1..Len(probe.out) :
                          /\ probe.out[k] = merge_entry_with_metadata(probe.entries[k],
                                                                      probe.merged[k])
                          /\ probe.fetched[k]
                                 <=> (probe.needed[k] /\ NeededAmong(k - 1) < b)
                   /\ rq.i = rq.n => Len(probe.out) = Len(probe.entries)
                   /\ rq.pc = "fetch" => NeededAmong(rq.i) < b
                   /\ rq.fetches = Min(b, NeededAmong(rq.i))

\* C27 witness: a call with budget 1 returned two different entries that both
\* needed a refresh; the first got the fetch and the second did not.
C27_BudgetSpentOnFirst ==
    \E r \in Sequential :
        /\ req[r].pc = "hydrate" /\ req[r].i = 2 /\ req[r].n = 2
        /\ req[r].max_refreshes = 1
        /\ probe.entries[1] # probe.entries[2]
        /\ probe.needed = <<TRUE, TRUE>>
        /\ probe.fetched = <<TRUE, FALSE>>
        /\ Len(probe.out) = 2

-----------------------------------------------------------------------------
(* Claims about the feeds that keep first-seen times *)

\* C22: a step of create_podcast_xml for a feed that is none of likes, reposts
\* and sets sends no first-seen GET and no first-seen SET, reads no first-seen
\* time, does not call the store at all, and leaves the store, with every
\* first-seen record in it, as it was.
C22_OrdinaryFeedSkipsTracker ==
    [][\A r \in Requests :
          (/\ req[r].pc = "render"
           /\ Len(req[r].feed) > 0
           /\ \A i \in 1..Len(req[r].feed) :
                  req[r].feed[i] \notin {"likes", "reposts", "sets"}
           /\ req'[r] # req[r])
              => /\ store' = store
                 /\ written' = written
                 /\ req'[r].fs_gets = 0 /\ req'[r].fs_sets = 0
                 /\ IsNone(req'[r].fs_read) /\ ~req'[r].fs_set
                 /\ req'[r].pc # "fswrite"
                 /\ req'[r].kv_called = req[r].kv_called
      ]_vars

\* C22 witness: with a first-seen record in the store, an identified item of
\* the tracks feed was rendered with its own timestamp, and no store call made.
C22_TracksFeedRendered ==
    \E r \in Requests :
        /\ kvAvailable
        /\ written # EmptyMap
        /\ req[r].pc = "render" /\ req[r].j >= 1
        /\ req[r].feed = <<"u", "/", "tracks">>
        /\ Truthy(ItemTrackId(req[r].item))
        /\ req[r].pub = DGet(req[r].item, "timestamp")
        /\ req[r].fs_gets = 0
        /\ ~req[r].kv_called

-----------------------------------------------------------------------------
(* An entry normalized and then rendered as an item of an ordinary feed *)

\* Entries of the track a whose timestamp is absent, null, a number, digits,
\* a date, empty or a text that does not coerce, with or without a release
\* timestamp and an upload date.
DatedEntries ==
    { DictOf(<<<<"id", Tok("a")>>, <<"url", Path("u", "a")>>, <<"timestamp", ts>>,
               <<"release_timestamp", rt>>, <<"upload_date", ud>>>>) :
          ts \in {Absent, PyNone, PyInt(T0), PyStr(<<"1", "0", "0">>), PyStr(<<>>),
                  PyStr(<<"2", "0", "2", "4", "-", "0", "1", "-", "0", "1">>),
                  Tok("soon")},
          rt \in {Absent, PyInt(50)},
          ud \in {Absent, PyStr(<<"2", "0", "2", "4", "0", "1", "0", "1">>), Tok("soon")} }

\* merge_entry_with_metadata(entry, None) is about to be called, and
\* create_podcast_xml is to render its result for the feed u/tracks.
DateInit ==
    /\ kvAvailable = FALSE
    /\ now = T0
    /\ store = EmptyMap
    /\ written = EmptyMap
    /\ req = [r \in Requests |->
                 IF r \in Sequential
                 THEN [IdleReq EXCEPT !.pc = "render", !.hydrated = TRUE, !.n = 1,
                                      !.feed = <<"u", "/", "tracks">>]
                 ELSE IdleReq]
    /\ \E entry \in DatedEntries :
           probe = [op |-> "call", entry |-> entry, metadata |-> PyNone,
                    result |-> PyNone]

\* Lines 693-736 for the normalized entry.
DateItem(r) ==
    /\ probe.op = "returned"
    /\ IsDict(probe.result)
    /\ RenderLookupFrom(r, {probe.result})
    /\ probe' = [probe EXCEPT !.op = "dated"]

DateNext == Normalize \/ \E r \in Sequential : DateItem(r) \/ RenderReturn(r)

DateSpec == DateInit /\ [][DateNext]_vars

\* C23: an item of an ordinary feed is rendered, never raising, with the date
\* its entry's timestamp coerces to (the first of its timestamp-like fields
\* that coerces), and with epoch 0 when there is none.
C23_OrdinaryDateNeverRaises ==
    \A r \in Sequential :
        probe.op = "dated"
            => /\ req[r].pc # "failed"
               /\ req[r].pub = (IF ~IsNone(ResolveTimestamp(probe.entry.v))
                                THEN ResolveTimestamp(probe.entry.v)
                                ELSE PyInt(0))

-----------------------------------------------------------------------------
(* The refresh of one entry for extractor blobs with thumbnails of any shape *)

\* Extractor blobs whose thumbnails field is absent, null, a list (empty, of
\* dicts with and without a url, of a string), a dict, or a string.
ThumbRaws ==
    { DictOf(<<<<"title", Tok("Full")>>, <<"thumbnails", t>>>>) :
          t \in { Absent, PyNone, PyList(<<>>),
                  PyList(<<PyDict([id |-> Tok("original"), url |-> Tok("http://i"),
                                   width |-> PyInt(5)]),
                           PyDict([id |-> Tok("small")])>>),
                  PyList(<<PyDict([url |-> Tok("http://i")])>>),
                  PyList(<<PyDict([id |-> Tok("small"), url |-> PyStr(<<>>)])>>),
                  PyList(<<Tok("http://i")>>),
                  PyDict([url |-> Tok("http://i"), width |-> PyInt(5)]),
                  Tok("http://i") } }

ThumbNext ==
    \E r \in Sequential : HydrateFetchFrom(r, ThumbRaws) /\ UNCHANGED probe

ThumbSpec == RefreshInit /\ [][ThumbNext]_vars

\* The thumbnails of a metadata payload are a non-empty list of dicts with no
\* keys but id and url and with a url that is not empty.
ThumbnailsClean(metadata) ==
    "thumbnails" \in DOMAIN metadata.v
        => LET t == metadata.v["thumbnails"]
           IN  /\ IsList(t)
               /\ Len(t.v) > 0
               /\ \A i \in 1..Len(t.v) :
                      /\ IsDict(t.v[i])
                      /\ DOMAIN t.v[i].v \subseteq {"id", "url"}
                      /\ Truthy(DGet(t.v[i], "url"))

\* C24: in every metadata payload sanitized from an extractor blob and sent to
\* the store, and in every record the store holds, the thumbnails field, when
\* present, is a non-empty list of {id, url} dicts with a non-empty url.
C24_ThumbnailsCleaned ==
    /\ \A r \in Sequential :
           req[r].last.sets > 0
               => ThumbnailsClean(DGet(req[r].last.payload, "metadata"))
    /\ \A key \in DOMAIN store :
           key[1] = TRACK_METADATA_PREFIX[1]
               => ThumbnailsClean(DGet(JsonLoads(store[key]), "metadata"))

-----------------------------------------------------------------------------
(* Two hydrate calls, one after the other, on the same entry *)

\* Entries of the track a: the last_modified field absent, seconds, a date,
\* milliseconds in digits, microseconds, and a date and time in digits
\* (YYYYMMDDHHMMSS); with or without a timestamp.
ConvergeEntries ==
    { DictOf(<<<<"id", Tok("a")>>, <<"url", Path("u", "a")>>,
               <<"last_modified", lm>>, <<"timestamp", ts>>>>) :
          lm \in { Absent, PyInt(0), PyInt(200),
                   PyStr(<<"2", "0", "2", "4", "-", "0", "1", "-", "0", "1">>),
                   PyStr(<<"1", "7", "0", "0", "0", "0", "0", "0", "0", "0", "0", "0", "0">>),
                   PyHuge(1700000000, 0, 0),
                   PyStr(<<"2", "0", "2", "4", "0", "1", "0", "1",
                           "1", "2", "0", "0", "0", "0">>) },
          ts \in {Absent, PyInt(T0)} }

\* hydrate_track_entries([entry], 1) as it starts (lines 432-438).
OneEntryCall ==
    [IdleReq EXCEPT !.pc = "hydrate", !.hydrated = TRUE, !.n = 1,
                    !.max_refreshes = 1, !.remaining_refreshes = 1]

ConvergeInit ==
    /\ kvAvailable = TRUE
    /\ now = T0
    /\ store = EmptyMap
    /\ written = EmptyMap
    /\ req = [r \in Requests |-> IF r \in Sequential THEN OneEntryCall ELSE IdleReq]
    /\ \E entry \in ConvergeEntries :
           probe = [op |-> "first", entry |-> entry, emitted |-> PyNone,
                    stored |-> FALSE]

ConvergeLookup(r) == HydrateLookupFrom(r, {probe.entry}) /\ UNCHANGED probe

ConvergeFetch(r) == HydrateFetchFrom(r, RawPool) /\ UNCHANGED probe

\* The first call has returned (line 490); what it emitted and whether the
\* store took its record are kept, and the same listing is hydrated again.
Again(r) ==
    /\ probe.op = "first"
    /\ req[r].pc = "hydrate"
    /\ req[r].i = req[r].n
    /\ probe' = [probe EXCEPT !.op = "second", !.emitted = req[r].last.result,
                              !.stored = req[r].last.stored]
    /\ req' = [req EXCEPT ![r] = OneEntryCall]
    /\ UNCHANGED <<kvAvailable, now, store, written>>

ConvergeNext ==
    \/ Tick
    \/ \E r \in Sequential : ConvergeLookup(r) \/ ConvergeFetch(r) \/ Again(r)

ConvergeSpec == ConvergeInit /\ [][ConvergeNext]_vars

\* C25: after a hydrate call that fetched an entry's metadata and whose record
\* the store took, a second call on the same entry that reads that record back
\* needs no refresh, makes no fetch, sends no write, and emits the entry the
\* first call emitted.
C25_HydrationConverges ==
    \A r \in Sequential :
        LET l == req[r].last
            key == MetadataKey(TrackIdOf(probe.entry))
        IN  (/\ probe.op = "second"
             /\ probe.stored
             /\ l.entry = probe.entry
             /\ l.gets = 1
             /\ key \in DOMAIN store
             /\ l.cached_record = JsonLoads(store[key]))
                => /\ ~l.needs_refresh
                   /\ req[r].pc # "fetch" /\ ~l.fetched
                   /\ l.sets = 0
                   /\ l.result = probe.emitted

-----------------------------------------------------------------------------
(* Claims about the watermark of the stored record *)

\* The watermark of the metadata record the store holds under the key.
WatermarkAt(kv, key) ==
    coerce_epoch_seconds(DGet(JsonLoads(kv[key]), "last_modified"))

\* C26: no step replaces a metadata record in the store by a record with an
\* older watermark.
C26_WatermarkNeverDecreases ==
    [][\A key \in DOMAIN store :
           (/\ key[1] = TRACK_METADATA_PREFIX[1]
            /\ IsInt(WatermarkAt(store, key))
            /\ IsInt(WatermarkAt(store', key)))
               => ~IntGreater(WatermarkAt(store, key), WatermarkAt(store', key))
      ]_vars

-----------------------------------------------------------------------------
(* The keys of two (feed path, track identifier) pairs *)

\* Feed paths as they come from the request URL, one of them with colons.
KeyFeeds ==
    { <<"u", "/", "likes">>,
      <<"u", "/", "likes", ":", "track", ":", "x">>,
      <<"u", "/", "sets", "/", "s">> }

\* Track identifiers: an id, ids with colons, and a URL (line 712).
KeyIds ==
    { Tok("a"), Tok("y"),
      PyStr(<<"x", ":", "track", ":", "y">>),
      PyStr(<<"a", ":", "b">>),
      PyStr(<<"https://", "soundcloud.com", "/", "u", "/", "a">>) }

KeyPairs == [feed_path : KeyFeeds, track_id : KeyIds]

KeyInit ==
    /\ kvAvailable = TRUE
    /\ now = T0
    /\ store = EmptyMap
    /\ written = EmptyMap
    /\ req = [r \in Requests |-> IdleReq]
    /\ \E a \in KeyPairs, b \in KeyPairs :
           probe = [op |-> "call", a |-> a, b |-> b,
                    first_seen |-> <<>>, metadata |-> <<>>]

\* Lines 122-123 for both pairs, and lines 302 and 324 for their identifiers.
DeriveKeys ==
    /\ probe.op = "call"
    /\ probe' = [probe EXCEPT
                    !.op = "derived",
                    !.first_seen = <<FirstSeenKey(probe.a.feed_path, probe.a.track_id),
                                     FirstSeenKey(probe.b.feed_path, probe.b.track_id)>>,
                    !.metadata = <<MetadataKey(probe.a.track_id),
                                   MetadataKey(probe.b.track_id)>>]
    /\ UNCHANGED <<kvAvailable, now, store, written, req>>

KeyNext == DeriveKeys

KeySpec == KeyInit /\ [][KeyNext]_vars

\* C28: the first-seen keys of two different (feed path, track identifier)
\* pairs differ, and no first-seen key is a metadata key.
C28_KeysCollisionFree ==
    probe.op = "derived"
        => /\ probe.a # probe.b => probe.first_seen[1] # probe.first_seen[2]
           /\ \A i, j \in 1..2 : probe.first_seen[i] # probe.metadata[j]

=============================================================================
